---- MODULE Spec2Model ----
(***************************************************************************)
(* img2csv (src/src/lib.rs): the pipeline get_cells = detect_features,     *)
(* then detect_lines, then detect_cells, over two-colour pixel masks.      *)
(*                                                                         *)
(* A mask is a record [w, h, px]: its width, its height and the set of     *)
(* its marked pixels <<x, y>> (FEATURE in a feature mask, LINE in a line   *)
(* mask); every other pixel is black.  An image is [w, h, px] with px the  *)
(* set of its non-white pixels <<x, y, luma>> after the (external)         *)
(* grayscale conversion; every other pixel is white.                       *)
(*                                                                         *)
(* u32 arithmetic keeps its width: a subtraction below zero panics in a    *)
(* build with overflow checks ("debug") and wraps modulo 2^32 in one       *)
(* without ("release").  A u32 is held as its 32-bit pattern read in two's *)
(* complement: v itself below 2^31, v - 2^32 from 2^31 on.  On patterns,   *)
(* wrapping + and - are the integers' + and -, and the order of the u32    *)
(* values is ULt.  get_pixel/put_pixel outside the buffer panic.           *)
(***************************************************************************)
EXTENDS Integers, Sequences, FiniteSets

VARIABLES entry, build, pc, fail, img, features, lines,
          y, prev_y, cur_row, ret,
          arg_row, y_top, y_bottom, x, prev_x, cur_col,
          acc, spans

vars == <<entry, build, pc, fail, img, features, lines,
          y, prev_y, cur_row, ret,
          arg_row, y_top, y_bottom, x, prev_x, cur_col,
          acc, spans>>

----------------------------------------------------------------------------
(* Program constants.                                                      *)

LINE_MIN_LENGTH_PX == 50

LINE_FEATUREFUL_THRESHOLD_PCT == 95

FEATURE_BOUNDARY == 8

CELL_MIN_HEIGHT_PX == 10

CELL_MIN_WIDTH_PX == 8

THRESHOLD == 130

(* Bounds of the inputs.                                                   *)

\* the largest number of strokes drawn on one input image or mask
MaxStrokes == 3

\* the largest number of pixels missing from a stroke of a feature mask
MaxHoles == 3

----------------------------------------------------------------------------
(* u32 arithmetic.                                                         *)

Sub32(a, b) == a - b

Add32(a, b) == a + b

\* a < b as u32 values
ULt(a, b) == IF (a < 0) = (b < 0) THEN a < b ELSE b < 0

\* a / 2 as u32 values
UHalf(a) == IF a >= 0 THEN a \div 2 ELSE 2147483647 + ((a \div 2) + 1)

Min(a, b) == IF a < b THEN a ELSE b

Builds == {"debug", "release"}

----------------------------------------------------------------------------
(* Pixel buffers.                                                          *)

NoMask == [w |-> 0, h |-> 0, px |-> {}]

InBounds(m, px, py) == px >= 0 /\ px < m.w /\ py >= 0 /\ py < m.h

\* get_pixel(x, y) != black on a two-colour mask
GetPixel(m, px, py) == <<px, py>> \in m.px

Columns(x0, x1, h) == {<<i, j>> : i \in x0 .. x1 - 1, j \in 0 .. h - 1}

Rows(y0, y1, w) == {<<i, j>> : i \in 0 .. w - 1, j \in y0 .. y1 - 1}

----------------------------------------------------------------------------
(* detect_features                                                         *)

could_be_feature(luma) == luma <= THRESHOLD

\* the classification of every pixel, before the border is suppressed
Classified(im) == {<<p[1], p[2]>> : p \in {q \in im.px : could_be_feature(q[3])}}

\* fault: the left band's loop starts at column 1
LeftBand_from_one(w, h) == Columns(1, Min(FEATURE_BOUNDARY, w), h)

LeftBand(w, h) == Columns(0, Min(FEATURE_BOUNDARY, w), h)

RightBand(w, h) == Columns(w - FEATURE_BOUNDARY, w, h)

TopBand(w, h) == Rows(0, Min(FEATURE_BOUNDARY, h), w)

BottomBand(w, h) == Rows(h - FEATURE_BOUNDARY, h, w)

detect_features(im) ==
  LET f == Classified(im) IN
  IF im.w < FEATURE_BOUNDARY \/ im.h < FEATURE_BOUNDARY
  THEN [w |-> im.w, h |-> im.h, px |-> f]
  ELSE [w |-> im.w, h |-> im.h,
        px |-> (((f \ LeftBand(im.w, im.h)) \ RightBand(im.w, im.h))
                   \ TopBand(im.w, im.h)) \ BottomBand(im.w, im.h)]

----------------------------------------------------------------------------
(* detect_lines                                                            *)

\* fault: the threshold 0.95 * 50 truncated to an integer count
IsDense_truncated(count) ==
  count >= (LINE_FEATUREFUL_THRESHOLD_PCT * LINE_MIN_LENGTH_PX) \div 100

\* (count as f32) / (LINE_MIN_LENGTH_PX as f32) >= 0.95
IsDense(count) ==
  count * 100 >= LINE_FEATUREFUL_THRESHOLD_PCT * LINE_MIN_LENGTH_PX

HWindow(px, py) == {<<k, py>> : k \in px .. px + LINE_MIN_LENGTH_PX - 1}

VWindow(px, py) == {<<px, k>> : k \in py .. py + LINE_MIN_LENGTH_PX - 1}

is_line_to_right(f, px, py) == IsDense(Cardinality(HWindow(px, py) \cap f.px))

is_line_downward(f, px, py) == IsDense(Cardinality(VWindow(px, py) \cap f.px))

\* the guards x < width - 50 and y < height - 50, as u32
RightGuard(f, px) == ULt(px, Sub32(f.w, LINE_MIN_LENGTH_PX))

DownGuard(f, py) == ULt(py, Sub32(f.h, LINE_MIN_LENGTH_PX))

\* a guard's subtraction goes below zero (it is evaluated at every feature)
GuardUnderflows(f) ==
  f.px # {} /\ (f.w < LINE_MIN_LENGTH_PX \/ f.h < LINE_MIN_LENGTH_PX)

\* the windows is_line_to_right / is_line_downward are called on
RightCalls(f) == {p \in f.px : RightGuard(f, p[1])}

DownCalls(f) == {p \in f.px : DownGuard(f, p[2])}

\* a call whose window leaves the mask
MainScanOutOfBounds(f) ==
  \/ \E p \in RightCalls(f) : p[1] + LINE_MIN_LENGTH_PX > f.w
  \/ \E p \in DownCalls(f) : p[2] + LINE_MIN_LENGTH_PX > f.h

MainScan(f) ==
  UNION ({HWindow(p[1], p[2]) : p \in {q \in RightCalls(f) : is_line_to_right(f, q[1], q[2])}}
         \cup
         {VWindow(p[1], p[2]) : p \in {q \in DownCalls(f) : is_line_downward(f, q[1], q[2])}})

\* the column probed by the left-margin pass
ProbeX == FEATURE_BOUNDARY + 1

\* the probe get_pixel(FEATURE_BOUNDARY + 1, y) leaves the mask
ProbeOutOfBounds(f) == f.h > 0 /\ ~InBounds(f, ProbeX, 0)

LeftMargin(w, h, painted) ==
  painted \cup {<<i, j>> : i \in 0 .. ProbeX - 1,
                           j \in {k \in 0 .. h - 1 : <<ProbeX, k>> \in painted}}

\* how the call ends under a build: "none", or the panic
DetectLinesFail(f, b) ==
  IF b = "debug" /\ GuardUnderflows(f) THEN "overflow"
  ELSE IF MainScanOutOfBounds(f) THEN "bounds"
  ELSE IF ProbeOutOfBounds(f) THEN "bounds"
  ELSE "none"

detect_lines(f) == [w |-> f.w, h |-> f.h, px |-> LeftMargin(f.w, f.h, MainScan(f))]

----------------------------------------------------------------------------
(* detect_cells_in_row and detect_cells: the values their steps compute.   *)

Cell(r, c, cx, cy, cw, ch) ==
  [row |-> r, col |-> c, x |-> cx, y |-> cy, width |-> cw, height |-> ch]

\* cell_height = y_bottom - y_top - 1
CellHeight(yt, yb) == Sub32(Sub32(yb, yt), 1)

\* cell_y_median = cell_y + cell_height / 2
CellYMedian(yt, yb) == Add32(yt, UHalf(CellHeight(yt, yb)))

\* fault: the rule's own pixel added to the width instead of taken off
CellWidth_plus(cx, px) == Add32(Sub32(cx, px), 1)

\* width: (x - prev_x - 1)
CellWidth(cx, px) == Sub32(Sub32(cx, px), 1)

\* the first column, and the first row, that is tested for a line
FirstX == CELL_MIN_WIDTH_PX - 1

FirstY == CELL_MIN_HEIGHT_PX - 1

\* prev_x = x + 1 and prev_y = y + 1
CursorAfter(c) == Add32(c, 1)

\* fault: cur_col is never advanced
NextCol_stuck(c) == c

\* cur_col += 1
NextCol(c) == Add32(c, 1)

\* cur_row += 1
NextRow(r) == Add32(r, 1)

\* fault: no skip window after a rule
SkipX_one(cx) == Add32(cx, 1)

\* x += CELL_MIN_WIDTH_PX
SkipX(cx) == Add32(cx, CELL_MIN_WIDTH_PX)

\* y += CELL_MIN_HEIGHT_PX
SkipY(cy) == Add32(cy, CELL_MIN_HEIGHT_PX)

\* fault: <= in place of <
TrailingCellFits_le(px, w) == ~ULt(w, Add32(px, CELL_MIN_WIDTH_PX))

\* if prev_x + CELL_MIN_WIDTH_PX < width
TrailingCellFits(px, w) == ULt(Add32(px, CELL_MIN_WIDTH_PX), w)

\* width: (width - prev_x - 1)
TrailingWidth(px, w) == Sub32(Sub32(w, px), 1)

\* if prev_y + CELL_MIN_HEIGHT_PX < height
TrailingRowFits(py, h) == ULt(Add32(py, CELL_MIN_HEIGHT_PX), h)

\* fault: the bottom row is not taken as a rule
IsRowBottom_line_only(m, cy) == GetPixel(m, 0, cy)

\* lines.get_pixel(0, y) != black || y == (height-1)
IsRowBottom(m, cy) == GetPixel(m, 0, cy) \/ cy = Sub32(m.h, 1)

\* a subtraction of the column scan's prologue goes below zero
RowArgsUnderflow(yt, yb) == ULt(yb, yt) \/ ULt(Sub32(yb, yt), 1)

\* the subtraction x - prev_x - 1 goes below zero
CellWidthUnderflows(cx, px) == ULt(cx, px) \/ ULt(Sub32(cx, px), 1)

----------------------------------------------------------------------------
(* The inputs.                                                             *)

HStroke(py, x0, x1) == {<<i, py>> : i \in x0 .. x1}

VStroke(px, y0, y1) == {<<px, j>> : j \in y0 .. y1}

Clip(s, w, h) == {p \in s : p[1] < w /\ p[2] < h}

BoundedSubsets(c) == {s \in SUBSET c : Cardinality(s) <= MaxStrokes}

\* Images: dark or faint rules drawn over the whole page, a stripe on the
\* scanner's edge (column 0) among them.
ImageDims == {<<5, 5>>, <<70, 6>>, <<70, 9>>, <<12, 40>>, <<50, 50>>, <<70, 70>>}

Ink(s, luma) == {<<p[1], p[2], luma>> : p \in s}

ImageStrokes(w, h) ==
  {Ink(Clip(HStroke(3, 0, w - 1), w, h), 0),
   Ink(Clip(HStroke(20, 0, w - 1), w, h), 0),
   Ink(Clip(HStroke(33, 0, w - 1), w, h), THRESHOLD + 1),
   Ink(Clip(HStroke(45, 0, w - 1), w, h), THRESHOLD),
   Ink(Clip(VStroke(0, 0, h - 1), w, h), 0),
   Ink(Clip(VStroke(9, 0, h - 1), w, h), THRESHOLD),
   Ink(Clip(VStroke(30, 0, h - 1), w, h), 0)} \ {{}}

Images ==
  UNION {{[w |-> d[1], h |-> d[2], px |-> UNION s] :
            s \in BoundedSubsets(ImageStrokes(d[1], d[2]))} : d \in ImageDims}

\* Feature masks: one horizontal and one vertical segment of 50 pixels, each
\* with 0 .. MaxHoles pixels missing.
FeatureDims == {<<5, 5>>, <<20, 20>>, <<60, 20>>, <<50, 60>>, <<60, 60>>}

Holes(n) == {10 * i : i \in 1 .. n}

HSegment(py, x0, n) ==
  {<<x0 + i, py>> : i \in (0 .. LINE_MIN_LENGTH_PX - 1) \ Holes(n)}

VSegment(px, y0, n) ==
  {<<px, y0 + i>> : i \in (0 .. LINE_MIN_LENGTH_PX - 1) \ Holes(n)}

FeatureHSegments == {{}} \cup {HSegment(5, x0, n) : x0 \in {3, 9}, n \in 0 .. MaxHoles}

FeatureVSegments == {{}} \cup {VSegment(12, 2, n) : n \in 0 .. MaxHoles}

FeatureMasks ==
  UNION {{[w |-> d[1], h |-> d[2], px |-> Clip(hs \cup vs, d[1], d[2])] :
            hs \in FeatureHSegments, vs \in FeatureVSegments} : d \in FeatureDims}

\* Line masks: row rules and column rules across the whole mask, placed at
\* and around the scan's thresholds, and a rule that stops short of column 0.
LineDims == {<<5, 30>>, <<30, 5>>, <<8, 10>>, <<9, 11>>, <<30, 30>>}

LineStrokes(w, h) ==
  ({Clip(HStroke(py, 0, w - 1), w, h) : py \in {9, 12, h - 11, h - 10, h - 1} \cap (0 .. h)}
   \cup
   {Clip(VStroke(px, 0, h - 1), w, h) : px \in {0, 7, w - 10, w - 9} \cap (0 .. w)}
   \cup
   {Clip(HStroke(14, 10, w - 1), w, h)}) \ {{}}

LineMasks ==
  UNION {{[w |-> d[1], h |-> d[2], px |-> UNION s] :
            s \in BoundedSubsets(LineStrokes(d[1], d[2]))} : d \in LineDims}

----------------------------------------------------------------------------
(* The state machine.                                                      *)

Entries == {"get_cells", "detect_lines", "detect_cells"}

NoImage == [w |-> 0, h |-> 0, px |-> {}]

Init ==
  /\ entry \in Entries
  /\ build \in Builds
  /\ img \in (IF entry = "get_cells" THEN Images ELSE {NoImage})
  /\ features \in (IF entry = "detect_lines" THEN FeatureMasks ELSE {NoMask})
  /\ lines \in (IF entry = "detect_cells" THEN LineMasks ELSE {NoMask})
  /\ pc = (CASE entry = "get_cells" -> "features"
             [] entry = "detect_lines" -> "lines"
             [] entry = "detect_cells" -> "row_loop")
  /\ fail = "none"
  /\ y = FirstY /\ prev_y = 0 /\ cur_row = 0 /\ ret = "none"
  /\ arg_row = 0 /\ y_top = 0 /\ y_bottom = 0
  /\ x = 0 /\ prev_x = 0 /\ cur_col = 0
  /\ acc = <<>> /\ spans = <<>>

scanVars == <<y, prev_y, cur_row, ret, arg_row, y_top, y_bottom, x, prev_x, cur_col, acc, spans>>

\* get_cells: let features = detect_features(&img)
DetectFeatures ==
  /\ pc = "features"
  /\ features' = detect_features(img)
  /\ pc' = "lines"
  /\ UNCHANGED <<entry, build, fail, img, lines>>
  /\ UNCHANGED scanVars

\* detect_lines(&features): it panics, or returns the line mask
DetectLines ==
  /\ pc = "lines"
  /\ LET f == DetectLinesFail(features, build) IN
       IF f # "none"
       THEN /\ fail' = f
            /\ pc' = "panic"
            /\ UNCHANGED lines
       ELSE /\ lines' = detect_lines(features)
            /\ pc' = (IF entry = "detect_lines" THEN "done" ELSE "row_loop")
            /\ UNCHANGED fail
  /\ UNCHANGED <<entry, build, img, features>>
  /\ UNCHANGED scanVars

\* the call detect_cells_in_row(&mut acc, &lines, r, yt, yb), up to its loop
Dispatch(r, yt, yb, back) ==
  /\ spans' = Append(spans, [row |-> r, y_top |-> yt, y_bottom |-> yb])
  /\ arg_row' = r /\ y_top' = yt /\ y_bottom' = yb
  /\ ret' = back
  /\ cur_col' = 0 /\ prev_x' = 0 /\ x' = FirstX
  /\ IF RowArgsUnderflow(yt, yb) /\ build = "debug"
     THEN fail' = "overflow" /\ pc' = "panic"
     ELSE fail' = fail /\ pc' = "col_loop"

\* detect_cells: one turn of while y < height
RowStep ==
  /\ pc = "row_loop"
  /\ ULt(y, lines.h)
  /\ IF IsRowBottom(lines, y)
     THEN /\ Dispatch(cur_row, prev_y, y, "row_ret")
          /\ UNCHANGED <<y, prev_y, cur_row, acc>>
     ELSE /\ y' = Add32(y, 1)
          /\ UNCHANGED <<pc, fail, prev_y, cur_row, ret, arg_row, y_top, y_bottom,
                         x, prev_x, cur_col, acc, spans>>
  /\ UNCHANGED <<entry, build, img, features, lines>>

\* detect_cells: after the call in the loop, "End of row processing"
RowReturn ==
  /\ pc = "row_ret"
  /\ prev_y' = CursorAfter(y)
  /\ y' = SkipY(y)
  /\ cur_row' = NextRow(cur_row)
  /\ pc' = "row_loop"
  /\ UNCHANGED <<entry, build, fail, img, features, lines, ret, arg_row, y_top,
                 y_bottom, x, prev_x, cur_col, acc, spans>>

\* detect_cells: after the loop, "Make a final row with the border wall"
RowEnd ==
  /\ pc = "row_loop"
  /\ ~ULt(y, lines.h)
  /\ IF TrailingRowFits(prev_y, lines.h)
     THEN Dispatch(cur_row, prev_y, Sub32(lines.h, 1), "done")
     ELSE /\ pc' = "done"
          /\ UNCHANGED <<fail, ret, arg_row, y_top, y_bottom, x, prev_x, cur_col, spans>>
  /\ UNCHANGED <<entry, build, img, features, lines, y, prev_y, cur_row, acc>>

\* detect_cells_in_row: one turn of while x < width
ColStep ==
  /\ pc = "col_loop"
  /\ ULt(x, lines.w)
  /\ IF ~InBounds(lines, x, CellYMedian(y_top, y_bottom))
     THEN /\ fail' = "bounds" /\ pc' = "panic"
          /\ UNCHANGED <<x, prev_x, cur_col, acc>>
     ELSE IF GetPixel(lines, x, CellYMedian(y_top, y_bottom))
     THEN IF CellWidthUnderflows(x, prev_x) /\ build = "debug"
          THEN /\ fail' = "overflow" /\ pc' = "panic"
               /\ UNCHANGED <<x, prev_x, cur_col, acc>>
          ELSE /\ acc' = Append(acc, Cell(arg_row, cur_col, prev_x, y_top,
                                          CellWidth(x, prev_x),
                                          CellHeight(y_top, y_bottom)))
               /\ prev_x' = CursorAfter(x)
               /\ cur_col' = NextCol(cur_col)
               /\ x' = SkipX(x)
               /\ UNCHANGED <<pc, fail>>
     ELSE /\ x' = Add32(x, 1)
          /\ UNCHANGED <<pc, fail, prev_x, cur_col, acc>>
  /\ UNCHANGED <<entry, build, img, features, lines, y, prev_y, cur_row, ret,
                 arg_row, y_top, y_bottom, spans>>

\* detect_cells_in_row: after the loop, "Make a final cell with the border
\* wall", and the return to the caller
ColEnd ==
  /\ pc = "col_loop"
  /\ ~ULt(x, lines.w)
  /\ acc' = IF TrailingCellFits(prev_x, lines.w)
            THEN Append(acc, Cell(arg_row, cur_col, prev_x, y_top,
                                  TrailingWidth(prev_x, lines.w),
                                  CellHeight(y_top, y_bottom)))
            ELSE acc
  /\ pc' = ret
  /\ UNCHANGED <<entry, build, fail, img, features, lines, y, prev_y, cur_row, ret,
                 arg_row, y_top, y_bottom, x, prev_x, cur_col, spans>>

Next ==
  \/ DetectFeatures
  \/ DetectLines
  \/ RowStep
  \/ RowReturn
  \/ RowEnd
  \/ ColStep
  \/ ColEnd

Spec == Init /\ [][Next]_vars

----------------------------------------------------------------------------
(* Properties.                                                             *)

W == lines.w

H == lines.h

\* detect_cells is running or has returned
InCellScan == pc \in {"row_loop", "row_ret", "col_loop", "done"} /\ entry # "detect_lines"

CellsReturned == pc = "done" /\ entry # "detect_lines"

\* detect_lines has just returned its mask
LinesReturned ==
  \/ entry = "detect_lines" /\ pc = "done"
  \/ entry = "get_cells" /\ pc = "row_loop" /\ spans = <<>> /\ y = FirstY

\* C1: in the cell list, row never decreases from one cell to the next, the
\* first cell of a row has col 0, and col grows by exactly one per cell
\* within a row.
C1_RowColOrder ==
  /\ acc # <<>> => acc[1].col = 0
  /\ \A i \in 1 .. Len(acc) - 1 :
       /\ acc[i].row <= acc[i + 1].row
       /\ IF acc[i].row = acc[i + 1].row
          THEN acc[i + 1].col = acc[i].col + 1
          ELSE acc[i + 1].col = 0

C1_Witness ==
  /\ CellsReturned
  /\ \E i \in 1 .. Len(acc) - 1 : acc[i].row = acc[i + 1].row /\ acc[i + 1].col = 2
  /\ \E i \in 1 .. Len(acc) - 1 : acc[i].row < acc[i + 1].row

\* C2: every emitted cell's box lies inside the mask (x + width <= W and
\* y + height <= H as u32 values), and no subtraction that computes a
\* height or a width is taken below zero.
C2_BoxInside ==
  /\ \A i \in 1 .. Len(acc) :
       /\ acc[i].width >= 0 /\ acc[i].x + acc[i].width <= W
       /\ acc[i].height >= 0 /\ acc[i].y + acc[i].height <= H
  /\ (pc = "col_loop") => ~RowArgsUnderflow(y_top, y_bottom)
  /\ (pc = "col_loop" /\ ULt(x, W) /\ GetPixel(lines, x, CellYMedian(y_top, y_bottom)))
       => ~CellWidthUnderflows(x, prev_x)
  /\ (pc = "col_loop" /\ ~ULt(x, W) /\ TrailingCellFits(prev_x, W))
       => ~(ULt(W, prev_x) \/ ULt(Sub32(W, prev_x), 1))
  /\ InCellScan => fail = "none"

C2_Witness ==
  /\ CellsReturned
  /\ \E i \in 1 .. Len(acc) : acc[i].x + acc[i].width = W - 1 /\ acc[i].y + acc[i].height = H - 2
  /\ \E i \in 1 .. Len(acc) : acc[i].x + acc[i].width < W - 1 /\ acc[i].y + acc[i].height < H - 2

\* C7: two cells of the same row do not overlap: the earlier one ends
\* strictly left of where the later one starts.
C7_NoOverlap ==
  \A i \in 1 .. Len(acc) : \A j \in 1 .. Len(acc) :
    (acc[i].row = acc[j].row /\ acc[i].col < acc[j].col)
      => (acc[i].width >= 0 /\ acc[i].x + acc[i].width < acc[j].x)

C7_Witness ==
  /\ CellsReturned
  /\ \E i \in 1 .. Len(acc) : \E j \in 1 .. Len(acc) :
       acc[i].row = acc[j].row /\ acc[i].col + 2 = acc[j].col

\* the column scan of the last dispatched row has returned
ColScanReturned == pc \in {"row_ret", "row_loop", "done"} /\ spans # <<>>

\* the cell list ends with the trailing cell of the last dispatched row
TrailingEmitted ==
  /\ acc # <<>>
  /\ acc[Len(acc)] = Cell(arg_row, cur_col, prev_x, y_top,
                          Sub32(Sub32(W, prev_x), 1), CellHeight(y_top, y_bottom))

\* C8 as stated: once a row's column scan has ended with cursor prev_x, a
\* trailing cell (x = prev_x, width = W - prev_x - 1) has been emitted
\* exactly when W - prev_x >= CELL_MIN_WIDTH_PX.
C8_TrailingAsStated ==
  ColScanReturned => (TrailingEmitted <=> W - prev_x >= CELL_MIN_WIDTH_PX)

\* C8 amended: the trailing cell has been emitted exactly when
\* W - prev_x > CELL_MIN_WIDTH_PX, that is when its own width
\* W - prev_x - 1 is at least CELL_MIN_WIDTH_PX.
C8_TrailingStrict ==
  ColScanReturned => (TrailingEmitted <=> W - prev_x > CELL_MIN_WIDTH_PX)

C8_Witness ==
  /\ ColScanReturned
  /\ prev_x > 0
  /\ W - prev_x = CELL_MIN_WIDTH_PX + 1
  /\ TrailingEmitted

\* the dispatches that ended at a LINE pixel of column 0 above the bottom row
LineCuts ==
  {i \in 1 .. Len(spans) : spans[i].y_bottom < H - 1 /\ GetPixel(lines, 0, spans[i].y_bottom)}

LastLineCut == IF LineCuts = {} THEN 0 ELSE CHOOSE i \in LineCuts : \A j \in LineCuts : j <= i

\* the cursor prev_y that the last such row left
LastPrevY == IF LineCuts = {} THEN 0 ELSE spans[LastLineCut].y_bottom + 1

\* C9: when detect_cells has returned, the strip below the last row that
\* ended at a LINE pixel above the bottom row has been dispatched exactly
\* once, as [prev_y, H - 1), if H - prev_y >= CELL_MIN_HEIGHT_PX, and not
\* at all otherwise.
C9_TrailingRowOnce ==
  CellsReturned =>
    IF H - LastPrevY >= CELL_MIN_HEIGHT_PX
    THEN /\ Len(spans) = LastLineCut + 1
         /\ spans[Len(spans)].y_top = LastPrevY
         /\ spans[Len(spans)].y_bottom = H - 1
    ELSE Len(spans) = LastLineCut

C9_Witness ==
  /\ CellsReturned
  /\ LineCuts # {}
  /\ H - LastPrevY = CELL_MIN_HEIGHT_PX
  /\ Len(spans) = LastLineCut + 1

\* C10: in get_cells on an image at least 50 wide and 50 high, a pixel of
\* column 0 of the line mask is LINE exactly when the pixel of column
\* FEATURE_BOUNDARY + 1 of its row is.
C10_ColumnZeroIsProbe ==
  (entry = "get_cells" /\ InCellScan /\ W >= LINE_MIN_LENGTH_PX /\ H >= LINE_MIN_LENGTH_PX)
    => \A j \in 0 .. H - 1 : GetPixel(lines, 0, j) <=> GetPixel(lines, FEATURE_BOUNDARY + 1, j)

C10_Witness ==
  /\ entry = "get_cells" /\ CellsReturned
  /\ W >= LINE_MIN_LENGTH_PX /\ H >= LINE_MIN_LENGTH_PX
  /\ \E p \in img.px : p[1] = 0 /\ could_be_feature(p[3])
  /\ GetPixel(lines, 0, 20) /\ GetPixel(lines, FEATURE_BOUNDARY + 1, 20)
  /\ ~GetPixel(lines, 0, 21)

\* at least 95% of the 50 pixels of a window: 48 of them
DenseAsClaimed(n) == 100 * n >= 95 * 50

\* the 50-pixel windows that are LINE throughout and lie over a dense enough
\* window of the feature mask
ValidatedHRuns ==
  {q \in (0 .. W - LINE_MIN_LENGTH_PX) \X {p[2] : p \in lines.px} :
     /\ HWindow(q[1], q[2]) \subseteq lines.px
     /\ DenseAsClaimed(Cardinality(HWindow(q[1], q[2]) \cap features.px))}

ValidatedVRuns ==
  {q \in {p[1] : p \in lines.px} \X (0 .. H - LINE_MIN_LENGTH_PX) :
     /\ VWindow(q[1], q[2]) \subseteq lines.px
     /\ DenseAsClaimed(Cardinality(VWindow(q[1], q[2]) \cap features.px))}

\* C6: in the mask detect_lines returns, every LINE pixel right of column
\* FEATURE_BOUNDARY lies on a run of 50 LINE pixels, horizontal or vertical,
\* over a window of the feature mask with at least 48 FEATURE pixels; a
\* LINE pixel in columns 0 .. FEATURE_BOUNDARY does too, or the pixel of
\* column FEATURE_BOUNDARY + 1 of its row is LINE.
C6_LinesValidated ==
  LinesReturned =>
    LET covered == UNION ({HWindow(q[1], q[2]) : q \in ValidatedHRuns}
                          \cup {VWindow(q[1], q[2]) : q \in ValidatedVRuns})
    IN \A p \in lines.px :
         \/ p \in covered
         \/ p[1] <= FEATURE_BOUNDARY /\ GetPixel(lines, FEATURE_BOUNDARY + 1, p[2])

C6_Witness ==
  /\ LinesReturned
  /\ Cardinality(HWindow(9, 5) \cap features.px) = 48
  /\ GetPixel(lines, 40, 5)
  /\ GetPixel(lines, 0, 5)
  /\ ~GetPixel(features, 0, 5)

\* C3: get_cells on an image narrower than CELL_MIN_WIDTH_PX or lower than
\* CELL_MIN_HEIGHT_PX does not fail and returns no cell.
C3_TinyImageNoCells ==
  (entry = "get_cells" /\ (img.w < CELL_MIN_WIDTH_PX \/ img.h < CELL_MIN_HEIGHT_PX))
    => (pc # "panic" /\ acc = <<>>)

\* C4: detect_lines never fails on a two-colour feature mask of any size:
\* its guards width - 50 and height - 50 do not go below zero, the windows
\* it hands to is_line_to_right and is_line_downward end inside the mask,
\* and the left-margin probe reads inside the mask.
C4_DetectLinesTotal ==
  /\ (pc = "lines") =>
       /\ ~GuardUnderflows(features)
       /\ \A p \in RightCalls(features) : p[1] + LINE_MIN_LENGTH_PX <= features.w
       /\ \A p \in DownCalls(features) : p[2] + LINE_MIN_LENGTH_PX <= features.h
       /\ ~ProbeOutOfBounds(features)
  /\ pc # "panic"

\* C5: in the mask detect_features returns, for an image of any size, no
\* pixel within FEATURE_BOUNDARY pixels of an edge is FEATURE.
C5_BorderSuppressed ==
  (entry = "get_cells" /\ pc # "features") =>
    \A p \in features.px :
      /\ p[1] >= FEATURE_BOUNDARY /\ p[1] < features.w - FEATURE_BOUNDARY
      /\ p[2] >= FEATURE_BOUNDARY /\ p[2] < features.h - FEATURE_BOUNDARY

====
